---- MODULE Spec2Model ----
(***************************************************************************)
(* Generation reuse and cache engine of app.py: the /generate handler      *)
(* (exact reuse, similar reuse, fresh generation), the /feedback handler   *)
(* (quality score aggregation), the read-only /generation and /metrics     *)
(* handlers, and the pure functions under them (normalize_prompt,          *)
(* prompt_hash, find_similar_prompt).  /generate is modelled twice: as one *)
(* step per request, and statement by statement in worker threads, for     *)
(* concurrent requests and for statements that fail.                       *)
(*                                                                         *)
(* Strings are sequences of ASCII codes, so that strip / lower / whitespace*)
(* collapsing / split are computed as Python computes them.  NULL / None   *)
(* is the empty tuple.  A SHA-256 digest is represented by the string that *)
(* was hashed (an ideal, collision-free hash), wrapped in a record.        *)
(***************************************************************************)
EXTENDS Integers, Sequences, FiniteSets, TLC

VARIABLES
  generations,      \* table generations, in id order: row i has id i
  feedback_table,   \* table feedback, in id order
  prompt_cache,     \* table prompt_cache, in rowid order (the scan order)
  request,          \* the request handled last
  response,         \* the response it was given
  n_submits,        \* number of /generate requests completed
  n_provider_calls, \* number of calls of a provider's generate()
  cache_writes,     \* the INSERT OR REPLACEs committed so far, in commit order
  inflight          \* per worker thread: the /generate request it is handling

vars == <<generations, feedback_table, prompt_cache, request, response,
          n_submits, n_provider_calls, cache_writes, inflight>>

NULL == <<>>

\* Bounds of the model: the number of requests that write a row (a generation
\* or a feedback) in one behaviour of Spec and SpecModes, of SpecAll, of
\* SpecFingerprint, of SpecFeedback, of SpecSimilar, of SpecConcurrent, of
\* SpecFailing, of SpecProviders and of SpecRace.
MaxOps == 4
MaxOpsAll == 3
MaxOpsFingerprint == 2
MaxOpsFeedback == 3
MaxOpsSimilar == 3
MaxOpsConcurrent == 3
MaxOpsFailing == 2
MaxOpsProviders == 3
MaxOpsRace == 3

(***************************************************************************)
(* Python string primitives on sequences of ASCII codes.                   *)
(***************************************************************************)
\* str.isspace() for the ASCII range: \t \n \v \f \r and the space.
IsSpace(c) == c \in {9, 10, 11, 12, 13, 32}

\* str.lower() on one ASCII character.
LowerChar(c) == IF c \in 65..90 THEN c + 32 ELSE c

\* A function on 1..n written out as the tuple it is.
AsTuple(f) == SubSeq(f, 1, Len(f))

lower(s) == AsTuple([i \in 1..Len(s) |-> LowerChar(s[i])])

\* str.strip(): drop leading and trailing whitespace.
strip(s) ==
  LET idx == {i \in 1..Len(s) : ~IsSpace(s[i])}
  IN  IF idx = {} THEN <<>>
      ELSE LET lo == CHOOSE i \in idx : \A j \in idx : i <= j
               hi == CHOOSE i \in idx : \A j \in idx : j <= i
           IN  SubSeq(s, lo, hi)

\* re.sub(r"\s+", " ", s): every maximal whitespace run becomes one space
\* (the characters kept are those that are not whitespace and the first of
\* each run).
collapse_ws(s) ==
  LET keep(i) == ~IsSpace(s[i]) \/ i = 1 \/ ~IsSpace(s[i - 1])
      kept    == SelectSeq(AsTuple([i \in 1..Len(s) |-> i]), keep)
  IN  AsTuple([k \in 1..Len(kept) |->
                 IF IsSpace(s[kept[k]]) THEN 32 ELSE s[kept[k]]])

\* str.split() with no argument: the maximal runs of characters that are not
\* whitespace, as a set (the callers only ever build set(...) of the result).
split(s) ==
  LET n      == Len(s)
      starts == {i \in 1..n : ~IsSpace(s[i]) /\ (i = 1 \/ IsSpace(s[i - 1]))}
      end(i) == CHOOSE j \in i..n :
                  /\ j = n \/ IsSpace(s[j + 1])
                  /\ \A k \in i..j : ~IsSpace(s[k])
  IN  {SubSeq(s, i, end(i)) : i \in starts}

\* str(int) for a non-negative integer.
RECURSIVE str_int(_)
str_int(n) == IF n < 10 THEN <<48 + n>> ELSE str_int(n \div 10) \o <<48 + (n % 10)>>

\* hashlib.sha256(s.encode()).hexdigest(), as an ideal hash.
sha256(s) == [digest |-> s]

(***************************************************************************)
(* Paths.                                                                  *)
(***************************************************************************)
\* "static/uploads": the directory part of every stored upload path.
UPLOAD_DIR == <<115, 116, 97, 116, 105, 99, 47, 117, 112, 108, 111, 97, 100, 115>>

\* Index of the last occurrence of character c in s, 0 if there is none
\* (str.rfind, shifted to 1-based positions).
rfind(s, c) ==
  LET idx == {i \in 1..Len(s) : s[i] = c}
  IN  IF idx = {} THEN 0 ELSE CHOOSE i \in idx : \A j \in idx : j <= i

\* os.path.splitext(p)[1]: from the last dot of the last path component, unless
\* that component has only leading dots before it.
splitext_ext(p) ==
  LET sep == rfind(p, 47)
      dot == rfind(p, 46)
  IN  IF dot > sep /\ \E k \in (sep + 1)..(dot - 1) : p[k] # 46
      THEN SubSeq(p, dot, Len(p))
      ELSE <<>>

\* os.path.basename(p): what follows the last "/".
basename(p) == SubSeq(p, rfind(p, 47) + 1, Len(p))

\* Lines 167-172 of generate: the stored path of the uploaded image, None when
\* the mode is not "image" or no file with a name came with the request.
upload_path(mode, filename, ts) ==
  IF mode = "image" /\ filename # <<>>
  THEN LET e   == lower(splitext_ext(filename))
           ext == IF e = <<>> THEN <<46, 112, 110, 103>> ELSE e       \* ".png"
       IN  UPLOAD_DIR \o <<47>> \o <<117, 112, 108, 95>> \o str_int(ts) \o ext
  ELSE NULL

(***************************************************************************)
(* Provider adapters.                                                      *)
(***************************************************************************)
\* MockProvider.generate: the output path is named by a digest of the raw
\* prompt ("image" when the prompt is empty); every other adapter delegates
\* to it.  The duration is measured wall-clock time, an input of the model.
MockProvider_generate(prompt) ==
  [file |-> sha256(IF prompt = <<>> THEN <<105, 109, 97, 103, 101>> ELSE prompt)]

\* The slugs of the registered adapters, by registry key.
PROVIDERS == [k \in {"mock", "meshy", "kaedim", "tripoSR"} |-> k]

\* Mutant: an unregistered key falls back to the mock adapter.
resolve_provider_mock(provider_key) ==
  IF provider_key \in DOMAIN PROVIDERS THEN PROVIDERS[provider_key]
  ELSE PROVIDERS["mock"]

\* PROVIDERS.get(provider_key, PROVIDERS["meshy"]).slug
resolve_provider(provider_key) ==
  IF provider_key \in DOMAIN PROVIDERS THEN PROVIDERS[provider_key]
  ELSE PROVIDERS["meshy"]

(***************************************************************************)
(* Caching and similarity.                                                 *)
(***************************************************************************)
normalize_prompt(p) == collapse_ws(lower(strip(p)))

prompt_hash(p) == sha256(normalize_prompt(p))

\* The key material of a request: the prompt in text mode, otherwise the
\* prompt followed by "::image@" and the upload's file name or "none".
key_material(prompt, mode, image_path) ==
  IF mode = "text" THEN prompt
  ELSE prompt \o <<58, 58, 105, 109, 97, 103, 101, 64>>
              \o (IF image_path # NULL THEN basename(image_path)
                  ELSE <<110, 111, 110, 101>>)

\* h, as computed on line 175 of generate and line 249 of feedback.
fingerprint(prompt, mode, image_path) ==
  prompt_hash(key_material(prompt, mode, image_path))

\* SELECT * FROM prompt_cache WHERE hash=?: the row, or NULL.
cache_row(cache, h) ==
  IF \E i \in 1..Len(cache) : cache[i].hash = h
  THEN cache[CHOOSE i \in 1..Len(cache) : cache[i].hash = h]
  ELSE NULL

\* The Jaccard score of two token sets, as the pair <<numerator, denominator>>
\* of len(tokens & tt) / max(1, len(tokens | tt)).
jaccard(tokens, tt) ==
  LET u == Cardinality(tokens \cup tt)
  IN  <<Cardinality(tokens \cap tt), IF u < 1 THEN 1 ELSE u>>

\* The scan of find_similar_prompt over rows i..Len(rows) in row order;
\* best is the index of the best row so far (0 for None) and bs its score.
RECURSIVE similar_scan(_, _, _, _, _)
similar_scan(rows, tokens, i, best, bs) ==
  IF i > Len(rows) THEN <<best, bs>>
  ELSE LET tt == split(normalize_prompt(rows[i].prompt))
           j  == jaccard(tokens, tt)
       IN  IF tt = {} THEN similar_scan(rows, tokens, i + 1, best, bs)
           ELSE IF j[1] * bs[2] > bs[1] * j[2]
                THEN similar_scan(rows, tokens, i + 1, i, j)
                ELSE similar_scan(rows, tokens, i + 1, best, bs)

\* Mutant: the threshold is exclusive.
find_similar_prompt_exclusive(cache, p, threshold) ==
  LET tokens == split(normalize_prompt(p))
  IN  IF tokens = {} THEN NULL
      ELSE LET r    == similar_scan(cache, tokens, 1, 0, <<0, 1>>)
               best == r[1]
               bs   == r[2]
           IN  IF best # 0 /\ bs[1] * threshold[2] > threshold[1] * bs[2]
               THEN [hash |-> cache[best].hash, prompt |-> cache[best].prompt,
                     model_path |-> cache[best].model_path,
                     quality_score |-> cache[best].quality_score]
               ELSE NULL

\* find_similar_prompt(conn, p, threshold): threshold is the pair
\* <<numerator, denominator>>; the result is the selected columns of the best
\* row, or NULL.
find_similar_prompt(cache, p, threshold) ==
  LET tokens == split(normalize_prompt(p))
  IN  IF tokens = {} THEN NULL
      ELSE LET r    == similar_scan(cache, tokens, 1, 0, <<0, 1>>)
               best == r[1]
               bs   == r[2]
           IN  IF best # 0 /\ bs[1] * threshold[2] >= threshold[1] * bs[2]
               THEN [hash |-> cache[best].hash, prompt |-> cache[best].prompt,
                     model_path |-> cache[best].model_path,
                     quality_score |-> cache[best].quality_score]
               ELSE NULL

\* threshold=0.92 at the call on line 201.
SIMILAR_THRESHOLD == <<92, 100>>

\* Mutant: the gate at 3.0 instead of 3.5.
quality_ok_at_3(q) ==
  LET v == IF q = NULL \/ q[1] = 0 THEN <<4, 1>> ELSE q
  IN  v[1] >= 3 * v[2]

\* (sim["quality_score"] or 4.0) >= 3.5, on a score <<numerator, denominator>>.
quality_ok(q) ==
  LET v == IF q = NULL \/ q[1] = 0 THEN <<4, 1>> ELSE q
  IN  2 * v[1] >= 7 * v[2]

(***************************************************************************)
(* The /generate handler.                                                  *)
(***************************************************************************)
\* Mutant: a similar reuse is answered without a row of its own.
record_generation_unless_similar(gens, prompt, mode, image_path, ts, model_path, provider, dur_ms, cache_hit, reuse_of) ==
  IF cache_hit = 2 THEN gens
  ELSE Append(gens, [id          |-> Len(gens) + 1,
                     prompt      |-> prompt,
                     mode        |-> mode,
                     image_path  |-> image_path,
                     provider    |-> provider,
                     model_path  |-> model_path,
                     status      |-> "ok",
                     duration_ms |-> dur_ms,
                     created_at  |-> ts,
                     cache_hit   |-> cache_hit,
                     reuse_of    |-> reuse_of])

\* Mutant: every reuse is labelled "cache-similar".
record_generation_reuse_label(gens, prompt, mode, image_path, ts, model_path, provider, dur_ms, cache_hit, reuse_of) ==
  Append(gens, [id          |-> Len(gens) + 1,
                prompt      |-> prompt,
                mode        |-> mode,
                image_path  |-> image_path,
                provider    |-> IF cache_hit > 0 THEN "cache-similar" ELSE provider,
                model_path  |-> model_path,
                status      |-> "ok",
                duration_ms |-> dur_ms,
                created_at  |-> ts,
                cache_hit   |-> cache_hit,
                reuse_of    |-> reuse_of])

\* record_generation: the INSERT INTO generations; the new row's id is the
\* next AUTOINCREMENT value.
record_generation(gens, prompt, mode, image_path, ts, model_path, provider, dur_ms, cache_hit, reuse_of) ==
  Append(gens, [id          |-> Len(gens) + 1,
                prompt      |-> prompt,
                mode        |-> mode,
                image_path  |-> image_path,
                provider    |-> provider,
                model_path  |-> model_path,
                status      |-> "ok",
                duration_ms |-> dur_ms,
                created_at  |-> ts,
                cache_hit   |-> cache_hit,
                reuse_of    |-> reuse_of])

\* Mutant: the replaced rows are those of the prompt text, not of the hash.
cache_upsert_by_prompt(cache, h, prompt, model_path, provider, ts) ==
  LET old  == cache_row(cache, h)
      q    == IF old = NULL THEN NULL ELSE old.quality_score
      rest == SelectSeq(cache, LAMBDA r : r.hash # h /\ r.prompt # prompt)
  IN  Append(rest, [hash          |-> h,
                    prompt        |-> prompt,
                    model_path    |-> model_path,
                    provider      |-> provider,
                    quality_score |-> q,
                    last_used     |-> ts])

\* Mutant: the new row starts without a quality_score.
cache_upsert_unrated(cache, h, prompt, model_path, provider, ts) ==
  Append(SelectSeq(cache, LAMBDA r : r.hash # h),
         [hash          |-> h,
          prompt        |-> prompt,
          model_path    |-> model_path,
          provider      |-> provider,
          quality_score |-> NULL,
          last_used     |-> ts])

\* Mutant: INSERT OR IGNORE, the first row of a hash stays.
cache_insert_or_ignore(cache, h, prompt, model_path, provider, ts) ==
  IF \E i \in 1..Len(cache) : cache[i].hash = h THEN cache
  ELSE Append(cache, [hash          |-> h,
                      prompt        |-> prompt,
                      model_path    |-> model_path,
                      provider      |-> provider,
                      quality_score |-> NULL,
                      last_used     |-> ts])

\* INSERT OR REPLACE INTO prompt_cache ...: the row of this hash, if any, is
\* deleted and the new row is added last, with the quality_score the old row
\* had (NULL when there was none).
cache_upsert(cache, h, prompt, model_path, provider, ts) ==
  LET old  == cache_row(cache, h)
      q    == IF old = NULL THEN NULL ELSE old.quality_score
      rest == SelectSeq(cache, LAMBDA r : r.hash # h)
  IN  Append(rest, [hash          |-> h,
                    prompt        |-> prompt,
                    model_path    |-> model_path,
                    provider      |-> provider,
                    quality_score |-> q,
                    last_used     |-> ts])

\* What one committed INSERT OR REPLACE wrote, and for which generation.
cache_write(gen_id, h, model_path, provider) ==
  [gen_id |-> gen_id, hash |-> h, model_path |-> model_path,
   provider |-> provider]

\* Mutant: exact reuse gated by the quality score, as similar reuse is.
exact_reuse_gated(reuse_policy, row) ==
  /\ reuse_policy \in {"always", "smart"}
  /\ row # NULL
  /\ quality_ok(row.quality_score)

\* Mutant: exact reuse under every policy.
exact_reuse_any_policy(reuse_policy, row) == row # NULL

\* Whether the exact-reuse branch is taken (line 191).
exact_reuse(reuse_policy, row) ==
  reuse_policy \in {"always", "smart"} /\ row # NULL

\* Whether the similarity lookup is made (line 200).
similar_lookup(reuse_policy, row) ==
  reuse_policy = "smart" /\ row = NULL

\* Whether the lookup's result is reused (line 202).
similar_reuse(sim) == sim # NULL /\ quality_ok(sim.quality_score)

\* POST /generate with the form fields mode, prompt, provider, reuse_policy
\* and the uploaded file's name (<<>>: no file); ts is the wall clock in
\* seconds while the request is handled and dur_ms the provider's measured
\* duration.
generate(mode, prompt, provider_key, reuse_policy, filename, ts, dur_ms) ==
  LET image_path == upload_path(mode, filename, ts)
      h          == fingerprint(prompt, mode, image_path)
      row        == cache_row(prompt_cache, h)
      sim        == IF similar_lookup(reuse_policy, row)
                    THEN find_similar_prompt(prompt_cache, prompt, SIMILAR_THRESHOLD)
                    ELSE NULL
      gen_id     == Len(generations) + 1
      slug       == resolve_provider(provider_key)
      out_path   == MockProvider_generate(prompt)
  IN  /\ request' = [op |-> "generate", reuse_policy |-> reuse_policy]
      /\ n_submits' = n_submits + 1
      /\ UNCHANGED <<feedback_table, inflight>>
      /\ IF exact_reuse(reuse_policy, row)
         THEN /\ generations' = record_generation(generations, prompt, mode,
                                  image_path, ts, row.model_path, row.provider,
                                  0, 1, NULL)
              /\ response' = [status |-> 302, gen_id |-> gen_id, flash |-> "cache"]
              /\ UNCHANGED <<prompt_cache, n_provider_calls, cache_writes>>
         ELSE IF similar_lookup(reuse_policy, row) /\ similar_reuse(sim)
         THEN /\ generations' = record_generation(generations, prompt, mode,
                                  image_path, ts, sim.model_path, "cache-similar",
                                  0, 2, NULL)
              /\ response' = [status |-> 302, gen_id |-> gen_id, flash |-> "similar"]
              /\ UNCHANGED <<prompt_cache, n_provider_calls, cache_writes>>
         ELSE /\ n_provider_calls' = n_provider_calls + 1
              /\ generations' = record_generation(generations, prompt, mode,
                                  image_path, ts, out_path, slug, dur_ms, 0, NULL)
              /\ prompt_cache' = cache_upsert(prompt_cache, h, prompt, out_path,
                                              slug, ts)
              /\ cache_writes' = Append(cache_writes,
                                        cache_write(gen_id, h, out_path, slug))
              /\ response' = [status |-> 302, gen_id |-> gen_id, flash |-> "done"]

(***************************************************************************)
(* The /feedback handler.                                                  *)
(***************************************************************************)
\* The value of a string of decimal digits, continuing from acc.
RECURSIVE digits_value(_, _)
digits_value(s, acc) ==
  IF s = <<>> THEN acc ELSE digits_value(Tail(s), 10 * acc + (Head(s) - 48))

\* int(s) for a string: surrounding whitespace is dropped, a sign may lead,
\* and at least one digit must follow and nothing else (ValueError otherwise).
int_of(s) ==
  LET t    == strip(s)
      neg  == t # <<>> /\ Head(t) = 45
      body == IF t # <<>> /\ Head(t) \in {43, 45} THEN Tail(t) ELSE t
  IN  IF body # <<>> /\ \A i \in 1..Len(body) : body[i] \in 48..57
      THEN [ok |-> TRUE,
            value |-> IF neg THEN 0 - digits_value(body, 0) ELSE digits_value(body, 0)]
      ELSE [ok |-> FALSE, value |-> 0]

\* int(request.form.get("rating", "0") or 0): field is the form field's text,
\* NULL standing for a form without the field as well as for an empty field.
parse_rating(field) ==
  IF field = NULL THEN [ok |-> TRUE, value |-> 0] ELSE int_of(field)

RECURSIVE gcd(_, _)
gcd(a, b) == IF b = 0 THEN a ELSE gcd(b, a % b)

RECURSIVE sum_ratings(_)
sum_ratings(rows) ==
  IF rows = <<>> THEN 0 ELSE Head(rows).rating + sum_ratings(Tail(rows))

\* Mutant: the mean over the feedback of the rated generation alone.
avg_rating_own(fb, gens, prompt) ==
  LET gid  == fb[Len(fb)].generation_id
      rows == SelectSeq(fb, LAMBDA f : f.generation_id = gid)
      sm   == sum_ratings(rows)
      n    == Len(rows)
      d    == gcd(IF sm < 0 THEN 0 - sm ELSE sm, n)
  IN  IF n = 0 THEN NULL ELSE <<sm \div d, n \div d>>

\* SELECT AVG(rating) FROM feedback WHERE generation_id IN
\*   (SELECT id FROM generations WHERE prompt=?)
\* as the fraction <<numerator, denominator>> in lowest terms, NULL when no
\* row is selected.
avg_rating(fb, gens, prompt) ==
  LET ids  == {i \in 1..Len(gens) : gens[i].prompt = prompt}
      rows == SelectSeq(fb, LAMBDA f : f.generation_id \in ids)
      sm   == sum_ratings(rows)
      n    == Len(rows)
      d    == gcd(IF sm < 0 THEN 0 - sm ELSE sm, n)
  IN  IF n = 0 THEN NULL ELSE <<sm \div d, n \div d>>

\* UPDATE prompt_cache SET quality_score=? WHERE hash=?
cache_set_quality(cache, h, q) ==
  [i \in 1..Len(cache) |->
     IF cache[i].hash = h THEN [cache[i] EXCEPT !.quality_score = q] ELSE cache[i]]

\* Whether the recomputed mean is written (line 251): not NULL and not 0.
avg_is_written(avg) == avg # NULL /\ avg[1] # 0

\* Lines 244-252: the INSERT INTO feedback, then the recomputation of the
\* cache row's quality_score when the generation exists.
feedback_insert(fb, gen_id, rating, ts) ==
  Append(fb, [id |-> Len(fb) + 1, generation_id |-> gen_id,
              rating |-> rating, created_at |-> ts])

\* POST /feedback/<gen_id> with the form field rating (the issues and the
\* comment are stored with the row and read by nothing; they are left out).
feedback(gen_id, rating_field, ts) ==
  LET parsed == parse_rating(rating_field)
      fb     == feedback_insert(feedback_table, gen_id, parsed.value, ts)
      found  == gen_id \in 1..Len(generations)
      g      == generations[gen_id]
      h      == fingerprint(g.prompt, g.mode, g.image_path)
      avg    == avg_rating(fb, generations, g.prompt)
  IN  /\ request' = [op |-> "feedback", gen_id |-> gen_id,
                     rating |-> rating_field]
      /\ UNCHANGED <<generations, n_submits, n_provider_calls, cache_writes,
                     inflight>>
      /\ IF ~parsed.ok
         THEN \* int() raises ValueError before the database is opened
              /\ response' = [status |-> 500, gen_id |-> gen_id, flash |-> ""]
              /\ UNCHANGED <<feedback_table, prompt_cache>>
         ELSE /\ feedback_table' = fb
              /\ prompt_cache' = IF found /\ avg_is_written(avg)
                                 THEN cache_set_quality(prompt_cache, h, avg)
                                 ELSE prompt_cache
              /\ response' = [status |-> 302, gen_id |-> gen_id, flash |-> "thanks"]

(***************************************************************************)
(* The read-only handlers.                                                 *)
(***************************************************************************)
\* GET /generation/<gen_id>: 404 when there is no such row.
detail(gen_id) ==
  /\ request' = [op |-> "detail", gen_id |-> gen_id]
  /\ response' = [status |-> IF gen_id \in 1..Len(generations) THEN 200 ELSE 404,
                  gen_id |-> gen_id, flash |-> ""]
  /\ UNCHANGED <<generations, feedback_table, prompt_cache, n_submits,
                 n_provider_calls, cache_writes, inflight>>

\* GET /metrics: the counts the page is computed from.
metrics ==
  /\ request' = [op |-> "metrics"]
  /\ response' = [status |-> 200,
                  total_generations |-> Len(generations),
                  cache_hits |-> Cardinality({i \in 1..Len(generations) :
                                               generations[i].cache_hit > 0})]
  /\ UNCHANGED <<generations, feedback_table, prompt_cache, n_submits,
                 n_provider_calls, cache_writes, inflight>>

(***************************************************************************)
(* The /generate handler step by step.  The development server handles     *)
(* each request in a thread of its own, and the handler works on the       *)
(* database in separate statements: the SELECT of the exact row (line      *)
(* 177), the scan of find_similar_prompt (line 138), the INSERT into       *)
(* generations with its commit (lines 184-188) and the INSERT OR REPLACE   *)
(* into prompt_cache with its commit (lines 216-219); the provider is      *)
(* called between them (line 212).  Each statement is atomic; other        *)
(* requests run between them.  inflight[w] holds the handler's local       *)
(* variables and its position.  (/feedback makes all its statements in one *)
(* transaction that starts with a write, so no other write comes between   *)
(* them: it is one step.)                                                  *)
(***************************************************************************)
Workers == {"w1", "w2"}

Idle == [pc |-> "idle"]

\* Lines 162-175: the form fields, the upload, and h.
generate_begin(w, mode, prompt, provider_key, reuse_policy, filename, ts) ==
  /\ inflight[w].pc = "idle"
  /\ inflight' = [inflight EXCEPT ![w] =
       [pc           |-> "select",
        mode         |-> mode,
        prompt       |-> prompt,
        provider_key |-> provider_key,
        reuse_policy |-> reuse_policy,
        image_path   |-> upload_path(mode, filename, ts),
        ts           |-> ts,
        h            |-> fingerprint(prompt, mode, upload_path(mode, filename, ts)),
        row          |-> NULL,
        sim          |-> NULL,
        slug         |-> "",
        out_path     |-> NULL,
        dur_ms       |-> 0,
        gen_id       |-> 0]]
  /\ UNCHANGED <<generations, feedback_table, prompt_cache, request, response,
                 n_submits, n_provider_calls, cache_writes>>

\* Line 177, and the branch chosen on lines 191 and 200.
generate_select(w) ==
  LET l   == inflight[w]
      row == cache_row(prompt_cache, l.h)
  IN  /\ l.pc = "select"
      /\ inflight' = [inflight EXCEPT ![w] =
           [l EXCEPT !.row = row,
                     !.pc  = IF exact_reuse(l.reuse_policy, row) THEN "record_reuse"
                             ELSE IF similar_lookup(l.reuse_policy, row) THEN "similar"
                             ELSE "provider"]]
      /\ UNCHANGED <<generations, feedback_table, prompt_cache, request,
                     response, n_submits, n_provider_calls, cache_writes>>

\* Lines 201-202.
generate_similar(w) ==
  LET l   == inflight[w]
      sim == find_similar_prompt(prompt_cache, l.prompt, SIMILAR_THRESHOLD)
  IN  /\ l.pc = "similar"
      /\ inflight' = [inflight EXCEPT ![w] =
           [l EXCEPT !.sim = sim,
                     !.pc  = IF similar_reuse(sim) THEN "record_reuse"
                             ELSE "provider"]]
      /\ UNCHANGED <<generations, feedback_table, prompt_cache, request,
                     response, n_submits, n_provider_calls, cache_writes>>

\* Lines 193-198 and 203-208: the row of a reuse, and the redirect.
generate_record_reuse(w) ==
  LET l      == inflight[w]
      gen_id == Len(generations) + 1
  IN  /\ l.pc = "record_reuse"
      /\ generations' =
           IF l.row # NULL
           THEN record_generation(generations, l.prompt, l.mode, l.image_path,
                                  l.ts, l.row.model_path, l.row.provider, 0, 1, NULL)
           ELSE record_generation(generations, l.prompt, l.mode, l.image_path,
                                  l.ts, l.sim.model_path, "cache-similar", 0, 2, NULL)
      /\ request' = [op |-> "generate", reuse_policy |-> l.reuse_policy]
      /\ response' = [status |-> 302, gen_id |-> gen_id,
                      flash |-> IF l.row # NULL THEN "cache" ELSE "similar"]
      /\ n_submits' = n_submits + 1
      /\ inflight' = [inflight EXCEPT ![w] = Idle]
      /\ UNCHANGED <<feedback_table, prompt_cache, n_provider_calls,
                     cache_writes>>

\* Lines 211-212: the provider is resolved and called; dur_ms is the
\* duration it measures.
generate_provider(w, dur_ms) ==
  LET l == inflight[w]
  IN  /\ l.pc = "provider"
      /\ n_provider_calls' = n_provider_calls + 1
      /\ inflight' = [inflight EXCEPT ![w] =
           [l EXCEPT !.slug     = resolve_provider(l.provider_key),
                     !.out_path = MockProvider_generate(l.prompt),
                     !.dur_ms   = dur_ms,
                     !.pc       = "record_fresh"]]
      /\ UNCHANGED <<generations, feedback_table, prompt_cache, request,
                     response, n_submits, cache_writes>>

\* Mutant: the row of a fresh generation is not written before the cache row.
generate_record_fresh_deferred(w) ==
  LET l == inflight[w]
  IN  /\ l.pc = "record_fresh"
      /\ inflight' = [inflight EXCEPT ![w] =
           [l EXCEPT !.gen_id = Len(generations) + 1, !.pc = "upsert"]]
      /\ UNCHANGED <<generations, feedback_table, prompt_cache, request,
                     response, n_submits, n_provider_calls, cache_writes>>

\* Line 213: the row of a fresh generation, committed.
generate_record_fresh(w) ==
  LET l == inflight[w]
  IN  /\ l.pc = "record_fresh"
      /\ generations' = record_generation(generations, l.prompt, l.mode,
                           l.image_path, l.ts, l.out_path, l.slug, l.dur_ms,
                           0, NULL)
      /\ inflight' = [inflight EXCEPT ![w] =
           [l EXCEPT !.gen_id = Len(generations) + 1, !.pc = "upsert"]]
      /\ UNCHANGED <<feedback_table, prompt_cache, request, response,
                     n_submits, n_provider_calls, cache_writes>>

\* Lines 216-222: the cache row, committed, and the redirect.
generate_upsert(w) ==
  LET l == inflight[w]
  IN  /\ l.pc = "upsert"
      /\ prompt_cache' = cache_upsert(prompt_cache, l.h, l.prompt, l.out_path,
                                      l.slug, l.ts)
      /\ cache_writes' = Append(cache_writes,
                                cache_write(l.gen_id, l.h, l.out_path, l.slug))
      /\ request' = [op |-> "generate", reuse_policy |-> l.reuse_policy]
      /\ response' = [status |-> 302, gen_id |-> l.gen_id, flash |-> "done"]
      /\ n_submits' = n_submits + 1
      /\ inflight' = [inflight EXCEPT ![w] = Idle]
      /\ UNCHANGED <<generations, feedback_table, n_provider_calls>>

\* The positions at which the handler's next step is a statement on the
\* database.
AtStoreStatement(pc) ==
  pc \in {"select", "similar", "record_reuse", "record_fresh", "upsert"}

\* The next statement raises sqlite3.Error (database locked, disk full,
\* file unreadable): nothing of it is committed, no handler catches the
\* exception, and the request is answered with status 500.  What earlier
\* statements committed stays.
store_failure(w) ==
  LET l == inflight[w]
  IN  /\ AtStoreStatement(l.pc)
      /\ request' = [op |-> "generate", reuse_policy |-> l.reuse_policy]
      /\ response' = [status |-> 500, gen_id |-> l.gen_id, flash |-> ""]
      /\ inflight' = [inflight EXCEPT ![w] = Idle]
      /\ UNCHANGED <<generations, feedback_table, prompt_cache, n_submits,
                     n_provider_calls, cache_writes>>

(***************************************************************************)
(* The state after init_db() on a fresh data directory: three empty        *)
(* tables.                                                                 *)
(***************************************************************************)
Init ==
  /\ generations = <<>>
  /\ feedback_table = <<>>
  /\ prompt_cache = <<>>
  /\ request = [op |-> "none"]
  /\ response = [status |-> 0]
  /\ n_submits = 0
  /\ n_provider_calls = 0
  /\ cache_writes = <<>>
  /\ inflight = [w \in Workers |-> Idle]

(***************************************************************************)
(* Requests.  Every specification below runs the same handlers from the    *)
(* same initial state; the specifications differ in the sets the request   *)
(* fields are drawn from.                                                  *)
(***************************************************************************)
\* A behaviour makes at most max requests that write a row.
WritesLeft(max) == Len(generations) + Len(feedback_table) < max

Submit(max, modes, prompts, provider_keys, policies, filenames, times, durations) ==
  /\ WritesLeft(max)
  /\ \E mode \in modes, prompt \in prompts, provider_key \in provider_keys,
        reuse_policy \in policies, filename \in filenames, ts \in times,
        dur_ms \in durations :
       generate(mode, prompt, provider_key, reuse_policy, filename, ts, dur_ms)

Rate(max, gen_ids, rating_fields, times) ==
  /\ WritesLeft(max)
  /\ \E gen_id \in gen_ids, rating_field \in rating_fields, ts \in times :
       feedback(gen_id, rating_field, ts)

View(gen_ids) == \E gen_id \in gen_ids : detail(gen_id)

ExistingIds == 1..Len(generations)

P_a_b    == <<97, 32, 98>>                \* "a b"
P_A_b_ws == <<65, 32, 32, 98, 32>>        \* "A  b "  (the same, not normalized)
P_b_a    == <<98, 32, 97>>                \* "b a"    (the same tokens as "a b")

R_0      == <<48>>                        \* "0"
R_3      == <<51>>                        \* "3"
R_5      == <<53>>                        \* "5"
R_7      == <<55>>                        \* "7"
R_minus1 == <<45, 49>>                    \* "-1"
R_x      == <<120>>                       \* "x"

F_a_PNG    == <<97, 46, 80, 78, 71>>      \* "a.PNG"
F_b_png_sp == <<98, 46, 112, 110, 103, 32>>  \* "b.png "
F_c        == <<99>>                      \* "c" (no extension)

Policies == {"smart", "always", "never"}

\* The reuse engine: two text prompts with the same tokens, under every
\* policy, for a registered and an unregistered provider key, rated 3 or 5.
Next ==
  \/ Submit(MaxOps, {"text"}, {P_a_b, P_b_a}, {"mock", "other"}, Policies,
            {<<>>}, {1}, {40})
  \/ Rate(MaxOps, ExistingIds, {R_3, R_5}, {1})

Spec == Init /\ [][Next]_vars

\* The same with both modes: requests that share the prompt text and differ
\* in the fingerprint.
NextModes ==
  \/ Submit(MaxOps, {"text", "image"}, {P_a_b, P_b_a}, {"mock"}, Policies,
            {<<>>}, {1}, {40})
  \/ Rate(MaxOps, ExistingIds, {R_3, R_5}, {1})

SpecModes == Init /\ [][NextModes]_vars

\* All four handlers.
NextAll ==
  \/ Submit(MaxOpsAll, {"text"}, {P_a_b, P_b_a}, {"mock"}, Policies, {<<>>},
            {1}, {40})
  \/ Rate(MaxOpsAll, 1..MaxOpsAll, {R_3, R_5}, {1})
  \/ View(1..MaxOpsAll)
  \/ metrics

SpecAll == Init /\ [][NextAll]_vars

\* Fingerprints: one prompt in two spellings, with and without an uploaded
\* image, at two instants.
NextFingerprint ==
  \/ Submit(MaxOpsFingerprint, {"text", "image"}, {P_a_b, P_A_b_ws}, {"mock"},
            {"smart", "always"}, {<<>>, F_a_PNG, F_b_png_sp, F_c}, {1, 2}, {40})

SpecFingerprint == Init /\ [][NextFingerprint]_vars

\* Feedback: any generation id and any rating field.
NextFeedback ==
  \/ Submit(MaxOpsFeedback, {"text", "image"}, {P_a_b}, {"mock"}, {"smart"},
            {<<>>}, {1}, {40})
  \/ Rate(MaxOpsFeedback, 1..MaxOpsFeedback,
          {NULL, R_0, R_3, R_5, R_7, R_minus1, R_x}, {1})

SpecFeedback == Init /\ [][NextFeedback]_vars

\* The i-th of the characters U+4E00, U+4E01, ...: ideographs, which are not
\* whitespace and have no case; each is a word of its own.
word(i) == 19968 + i

\* The words lo..hi, separated by single spaces.
words(lo, hi) ==
  AsTuple([k \in 1..(2 * (hi - lo) + 1) |->
             IF k % 2 = 1 THEN word(lo + (k - 1) \div 2) ELSE 32])

P_25w   == words(1, 25)                   \* 25 words
P_23w   == words(1, 23)                   \* 23 of them: overlap 23/25 = 0.92
P_100w  == words(1, 100)                  \* 100 words
P_92w   == words(1, 92)                   \* 92 of them: overlap 92/100 = 0.92
P_91w   == words(1, 91)                   \* 91 of them: overlap 91/100 = 0.91
P_blank == <<32, 9>>                      \* " \t": no token

SimilarPrompts == {P_25w, P_23w, P_100w, P_92w, P_91w, P_blank}

\* The similarity threshold: "smart" text requests for prompts whose overlaps
\* lie on both sides of it.
NextSimilar ==
  \/ Submit(MaxOpsSimilar, {"text"}, SimilarPrompts, {"mock"}, {"smart"},
            {<<>>}, {1}, {40})

SpecSimilar == Init /\ [][NextSimilar]_vars

\* The provider registry: three registered keys and an unregistered one
\* ("meshy" itself is not asked for, so that its slug shows the fallback).
ProviderKeys == {"mock", "kaedim", "tripoSR", "other"}

NextProviders ==
  \/ Submit(MaxOpsProviders, {"text"}, {P_a_b}, ProviderKeys, Policies,
            {<<>>}, {1}, {40})

SpecProviders == Init /\ [][NextProviders]_vars

\* A request is accepted by an idle worker while fewer than max requests
\* have written or may yet write their row.
Begin(max, modes, prompts, provider_keys, policies, filenames, times) ==
  /\ Len(generations) + Len(feedback_table)
       + Cardinality({w \in Workers : inflight[w].pc # "idle"
                                       /\ inflight[w].gen_id = 0}) < max
  /\ \E w \in Workers, mode \in modes, prompt \in prompts,
        provider_key \in provider_keys, reuse_policy \in policies,
        filename \in filenames, ts \in times :
       generate_begin(w, mode, prompt, provider_key, reuse_policy, filename, ts)

\* Concurrent requests: two worker threads run /generate statement by
\* statement for prompts with the same tokens; feedback comes in between.
NextConcurrent ==
  \/ Begin(MaxOpsConcurrent, {"text"}, {P_a_b, P_b_a}, {"mock", "kaedim"},
           {"smart"}, {<<>>}, {1})
  \/ \E w \in Workers : generate_select(w)
  \/ \E w \in Workers : generate_similar(w)
  \/ \E w \in Workers : generate_record_reuse(w)
  \/ \E w \in Workers : generate_provider(w, 40)
  \/ \E w \in Workers : generate_record_fresh(w)
  \/ \E w \in Workers : generate_upsert(w)
  \/ Rate(MaxOpsConcurrent, ExistingIds, {R_3}, {1})

SpecConcurrent == Init /\ [][NextConcurrent]_vars

\* The race for one cache row: two spellings of one prompt, which have the
\* same fingerprint and different model files, by two providers.
NextRace ==
  \/ Begin(MaxOpsRace, {"text"}, {P_a_b, P_A_b_ws}, {"mock", "kaedim"},
           {"smart", "always"}, {<<>>}, {1})
  \/ \E w \in Workers : generate_select(w)
  \/ \E w \in Workers : generate_similar(w)
  \/ \E w \in Workers : generate_record_reuse(w)
  \/ \E w \in Workers : generate_provider(w, 40)
  \/ \E w \in Workers : generate_record_fresh(w)
  \/ \E w \in Workers : generate_upsert(w)

SpecRace == Init /\ [][NextRace]_vars

\* Store failures: the same steps, and any statement may fail.  A failed
\* request writes no row, so the provider calls are bounded as well.
NextFailing ==
  \/ /\ n_provider_calls < MaxOpsFailing
     /\ Begin(MaxOpsFailing, {"text"}, {P_a_b, P_b_a}, {"mock"},
              Policies, {<<>>}, {1})
  \/ \E w \in Workers : generate_select(w)
  \/ \E w \in Workers : generate_similar(w)
  \/ \E w \in Workers : generate_record_reuse(w)
  \/ \E w \in Workers : generate_provider(w, 40)
  \/ \E w \in Workers : generate_record_fresh(w)
  \/ \E w \in Workers : generate_upsert(w)
  \/ \E w \in Workers : store_failure(w)

SpecFailing == Init /\ [][NextFailing]_vars

(***************************************************************************)
(* Vocabulary of the properties.                                           *)
(***************************************************************************)
LastGen == generations[Len(generations)]

\* The step was made by the /generate handler, which added row NewGen.
GenerateStep ==
  /\ request'.op = "generate"
  /\ Len(generations') = Len(generations) + 1

NewGen == generations'[Len(generations')]

GenFingerprint(g) == fingerprint(g.prompt, g.mode, g.image_path)

SameRequest(g1, g2) ==
  /\ g1.prompt = g2.prompt
  /\ g1.mode = g2.mode
  /\ g1.image_path = g2.image_path

HasEntry(cache, h) == \E i \in 1..Len(cache) : cache[i].hash = h

EntryOf(cache, h) == cache[CHOOSE i \in 1..Len(cache) : cache[i].hash = h]

\* A quality score <<numerator, denominator>> below 3.5.
BelowGate(q) == q # NULL /\ 2 * q[1] < 7 * q[2]

Tokens(p) == split(normalize_prompt(p))

\* |A \cap B| * den >= num * |A \cup B|: the token overlap of prompts p and q
\* is at least num/den.
OverlapAtLeast(p, q, num, den) ==
  /\ Tokens(p) # {} /\ Tokens(q) # {}
  /\ Cardinality(Tokens(p) \cap Tokens(q)) * den
       >= num * Cardinality(Tokens(p) \cup Tokens(q))

\* Entry i of the cache overlaps prompt p strictly more than entry j does.
BetterMatch(cache, p, i, j) ==
  /\ Tokens(cache[i].prompt) # {}
  /\ \/ Tokens(cache[j].prompt) = {}
     \/ Cardinality(Tokens(p) \cap Tokens(cache[i].prompt))
          * Cardinality(Tokens(p) \cup Tokens(cache[j].prompt))
        > Cardinality(Tokens(p) \cap Tokens(cache[j].prompt))
          * Cardinality(Tokens(p) \cup Tokens(cache[i].prompt))

\* Entry i is the best token-overlap match of prompt p in the cache (the first
\* one in row order among equals) and its overlap is at least 0.92.
IsBestMatch(cache, p, i) ==
  /\ i \in 1..Len(cache)
  /\ OverlapAtLeast(p, cache[i].prompt, 92, 100)
  /\ \A j \in 1..Len(cache) : ~BetterMatch(cache, p, j, i)
  /\ \A j \in 1..(i - 1) : BetterMatch(cache, p, i, j)

(***************************************************************************)
(* C1.  Exact reuse is idempotent and never gated by quality: when a       *)
(* request was answered by a fresh generation and the same prompt, mode    *)
(* and image reference are submitted next under "always" or "smart", the   *)
(* handler adds one generation row with cache_hit = 1, duration 0, the     *)
(* model path of the first row and the provider stored in the cache row,   *)
(* and calls no provider, whatever the cache row's quality_score is.       *)
(***************************************************************************)
C1_Repeat ==
  /\ request.op = "generate"
  /\ Len(generations) > 0
  /\ LastGen.cache_hit = 0
  /\ GenerateStep
  /\ request'.reuse_policy \in {"always", "smart"}
  /\ SameRequest(NewGen, LastGen)

C1_ExactReuseIdempotent ==
  [][C1_Repeat =>
       /\ NewGen.cache_hit = 1
       /\ NewGen.duration_ms = 0
       /\ NewGen.model_path = LastGen.model_path
       /\ NewGen.provider = EntryOf(prompt_cache, GenFingerprint(LastGen)).provider
       /\ n_provider_calls' = n_provider_calls]_vars

\* The repeated request was served from a cache row rated below 3.5.
C1_Witness ==
  /\ Len(generations) >= 2
  /\ request.op = "generate"
  /\ request.reuse_policy \in {"always", "smart"}
  /\ generations[Len(generations) - 1].cache_hit = 0
  /\ SameRequest(LastGen, generations[Len(generations) - 1])
  /\ LastGen.cache_hit = 1
  /\ HasEntry(prompt_cache, GenFingerprint(LastGen))
  /\ BelowGate(EntryOf(prompt_cache, GenFingerprint(LastGen)).quality_score)

(***************************************************************************)
(* C2.  A request with reuse_policy "never" calls a provider and is        *)
(* recorded with cache_hit = 0, whether or not the cache holds a row for   *)
(* its fingerprint or a similar row of good quality.                       *)
(***************************************************************************)
C2_NeverBypasses ==
  [][(GenerateStep /\ request'.reuse_policy = "never") =>
       /\ NewGen.cache_hit = 0
       /\ NewGen.provider \in {PROVIDERS[k] : k \in DOMAIN PROVIDERS}
       /\ n_provider_calls' = n_provider_calls + 1]_vars

\* A "never" request was generated afresh although an earlier generation had
\* cached its fingerprint and another, unrated row has the same tokens.
C2_Witness ==
  /\ Len(generations) >= 3
  /\ request.op = "generate"
  /\ request.reuse_policy = "never"
  /\ LastGen.cache_hit = 0
  /\ \E i \in 1..(Len(generations) - 1) :
       /\ generations[i].cache_hit = 0
       /\ GenFingerprint(generations[i]) = GenFingerprint(LastGen)
  /\ \E k \in 1..Len(prompt_cache) :
       /\ prompt_cache[k].hash # GenFingerprint(LastGen)
       /\ OverlapAtLeast(LastGen.prompt, prompt_cache[k].prompt, 92, 100)
       /\ prompt_cache[k].quality_score = NULL

(***************************************************************************)
(* C3.  Smart gating: a "smart" request with no cache row for its          *)
(* fingerprint, whose best token-overlap match E scores at least 0.92, is  *)
(* served E's model with cache_hit = 2 if E's quality_score is NULL or at  *)
(* least 3.5, and is generated afresh (cache_hit = 0) if it is below 3.5.  *)
(***************************************************************************)
C3_SmartGating ==
  [][\A i \in 1..Len(prompt_cache) :
       ( /\ GenerateStep
         /\ request'.reuse_policy = "smart"
         /\ ~HasEntry(prompt_cache, GenFingerprint(NewGen))
         /\ IsBestMatch(prompt_cache, NewGen.prompt, i) )
       => IF BelowGate(prompt_cache[i].quality_score)
          THEN /\ NewGen.cache_hit = 0
               /\ n_provider_calls' = n_provider_calls + 1
          ELSE /\ NewGen.cache_hit = 2
               /\ NewGen.model_path = prompt_cache[i].model_path
               /\ n_provider_calls' = n_provider_calls]_vars

\* The same "smart" request was first served by similar reuse from an unrated
\* row and then, the row having been rated 3, generated afresh although the
\* tokens of the two prompts are the same.
C3_Witness ==
  /\ Len(generations) = 3
  /\ request.op = "generate"
  /\ request.reuse_policy = "smart"
  /\ generations[1].cache_hit = 0
  /\ generations[2].cache_hit = 2
  /\ generations[3].cache_hit = 0
  /\ SameRequest(generations[2], generations[3])
  /\ Tokens(generations[1].prompt) = Tokens(generations[3].prompt)
  /\ EntryOf(prompt_cache, GenFingerprint(generations[1])).quality_score = <<3, 1>>

(***************************************************************************)
(* C4.  Threshold boundary: find_similar_prompt with threshold 0.92        *)
(* returns an entry of highest Jaccard score |A \cap B| / |A \cup B| if    *)
(* and only if that score is at least 0.92, the bound included (23 of 25   *)
(* and 92 of 100 are eligible, 91 of 100 is not); a query without tokens   *)
(* gets no match.                                                          *)
(***************************************************************************)
\* The entries that query q may be given: those with tokens whose overlap with
\* q is at least 92/100 and not below any other entry's.
C4_Eligible(cache, q) ==
  LET tq    == Tokens(q)
      tt    == AsTuple([i \in 1..Len(cache) |-> Tokens(cache[i].prompt)])
      inter == AsTuple([i \in 1..Len(cache) |-> Cardinality(tq \cap tt[i])])
      union == AsTuple([i \in 1..Len(cache) |-> Cardinality(tq \cup tt[i])])
  IN  {i \in 1..Len(cache) :
         /\ tq # {} /\ tt[i] # {}
         /\ 100 * inter[i] >= 92 * union[i]
         /\ \A j \in 1..Len(cache) :
              tt[j] # {} => inter[j] * union[i] <= inter[i] * union[j]}

C4_ThresholdInclusive ==
  \A q \in SimilarPrompts :
    LET r  == find_similar_prompt(prompt_cache, q, SIMILAR_THRESHOLD)
        el == C4_Eligible(prompt_cache, q)
    IN  IF el = {} THEN r = NULL
        ELSE r # NULL /\ \E i \in el : r.hash = prompt_cache[i].hash

\* With the 100-word entry in the cache, the 92-word prompt was served its
\* model (overlap exactly 0.92) and the 91-word prompt was then generated
\* afresh (overlap 0.91).
C4_Witness ==
  /\ Len(generations) = 3
  /\ request.op = "generate"
  /\ generations[1].prompt = P_100w
  /\ generations[2].prompt = P_92w
  /\ generations[2].cache_hit = 2
  /\ generations[2].model_path = generations[1].model_path
  /\ generations[3].prompt = P_91w
  /\ generations[3].cache_hit = 0

(***************************************************************************)
(* C5.  Feedback propagation: after feedback on an existing generation g,  *)
(* all ratings being in 1..5, the cache row of g's fingerprint, if there   *)
(* is one, holds the arithmetic mean of the ratings of all feedback rows   *)
(* of all generations whose prompt text equals g's, whatever their mode,   *)
(* image and cache_hit (ratings 5 and 3 leave 4.0).                        *)
(***************************************************************************)
\* The feedback rows pooled with generation g's.
C5_Pooled(g) ==
  {k \in 1..Len(feedback_table) :
     /\ feedback_table[k].generation_id \in 1..Len(generations)
     /\ generations[feedback_table[k].generation_id].prompt = g.prompt}

RECURSIVE C5_Sum(_)
C5_Sum(ks) ==
  IF ks = {} THEN 0
  ELSE LET k == CHOOSE x \in ks : TRUE
       IN  feedback_table[k].rating + C5_Sum(ks \ {k})

SameSpelling(p1, p2) == normalize_prompt(p1) = normalize_prompt(p2)

C6_FingerprintDeterminism ==
  \A i, j \in 1..Len(generations) :
    ( /\ i < j
      /\ generations[i].mode = generations[j].mode
      /\ generations[i].image_path = generations[j].image_path
      /\ SameSpelling(generations[i].prompt, generations[j].prompt) )
    => /\ GenFingerprint(generations[i]) = GenFingerprint(generations[j])
       /\ generations[i].cache_hit = 0 =>
            /\ generations[j].cache_hit = 1
            /\ generations[j].model_path = generations[i].model_path
            /\ generations[j].duration_ms = 0

(***************************************************************************)
(* C7.  Mode/image separation: for one prompt, the fingerprints of the     *)
(* text request, of the image request without an image and of the image    *)
(* requests with different image references are pairwise distinct, so a    *)
(* cache row written for one of them is never an exact hit for another.    *)
(***************************************************************************)
C7_ModeImageSeparation ==
  \A i, j \in 1..Len(generations) :
    ( /\ generations[i].prompt = generations[j].prompt
      /\ \/ generations[i].mode # generations[j].mode
         \/ generations[i].image_path # generations[j].image_path )
    => GenFingerprint(generations[i]) # GenFingerprint(generations[j])

(***************************************************************************)
(* C8.  One immutable generation row per request: every /generate request, *)
(* on each of its three branches, adds exactly one row, whose id is larger *)
(* than every id before it; no request of any handler changes or removes   *)
(* a row; so the number of rows is the number of completed /generate       *)
(* requests.                                                               *)
(***************************************************************************)
C8_Step ==
  /\ \A i \in 1..Len(generations) :
       /\ i <= Len(generations')
       /\ generations'[i] = generations[i]
  /\ IF request'.op = "generate"
     THEN /\ Len(generations') = Len(generations) + 1
          /\ \A i \in 1..Len(generations) : generations[i].id < NewGen.id
          /\ n_submits' = n_submits + 1
     ELSE /\ generations' = generations
          /\ n_submits' = n_submits

C8_OneRowPerSubmit ==
  /\ [](Len(generations) = n_submits)
  /\ [][C8_Step]_vars

\* Three requests took the three branches, and a lookup followed.
C8_Witness ==
  /\ Len(generations) = 3
  /\ n_submits = 3
  /\ {generations[i].cache_hit : i \in 1..3} = {0, 1, 2}
  /\ request.op = "detail"
  /\ response.status = 200

(***************************************************************************)
(* C9.  Feedback for a generation id that no generation row has fails with *)
(* "not found" and leaves the feedback table and the cache unchanged.      *)
(* (The handler answers every request it accepts with a redirect to the    *)
(* generation's page, which is "not found" here; what is stated is the     *)
(* effect on the tables.)                                                  *)
(***************************************************************************)
C9_FeedbackNotFound ==
  [][( /\ request'.op = "feedback"
       /\ request'.gen_id \notin 1..Len(generations) )
     => /\ feedback_table' = feedback_table
        /\ prompt_cache' = prompt_cache]_vars

(***************************************************************************)
(* C10.  Every stored feedback row has a rating in 1..5, and so every      *)
(* quality_score that is not NULL lies in [1, 5], whatever rating fields   *)
(* the requests carry.  (Stated for the feedback of existing generations,  *)
(* so that it does not rest on C9.)                                        *)
(***************************************************************************)
C10_RatingsInRange ==
  /\ \A k \in 1..Len(feedback_table) :
       feedback_table[k].generation_id \in 1..Len(generations)
         => feedback_table[k].rating \in 1..5
  /\ \A i \in 1..Len(prompt_cache) :
       LET q == prompt_cache[i].quality_score
       IN  q # NULL => (q[2] <= q[1] /\ q[1] <= 5 * q[2])

(***************************************************************************)
(* C11.  No partial state after a failed or finished /generate request:    *)
(* every cache_hit = 0 generation row whose request has ended (with a      *)
(* redirect or with a failure) has had its cache row written; a request    *)
(* that fails leaves neither.                                              *)
(***************************************************************************)
RequestEnded(gen_id) ==
  \A w \in Workers : ~(inflight[w].pc = "upsert" /\ inflight[w].gen_id = gen_id)

C11_NoPartialState ==
  \A i \in 1..Len(generations) :
    (generations[i].cache_hit = 0 /\ RequestEnded(i))
      => \E k \in 1..Len(cache_writes) : cache_writes[k].gen_id = i

(***************************************************************************)
(* C12.  A fresh generation resolves the provider from the request's       *)
(* provider key, the default "meshy" standing in for a key that is not     *)
(* registered; the request is answered as any other; one provider is       *)
(* called; and the generation row and the cache row both carry that        *)
(* provider's slug.                                                        *)
(***************************************************************************)
\* The step is the handling of a /generate request with this provider key.
GenerateWith(provider_key) ==
  \E reuse_policy \in Policies :
    generate("text", P_a_b, provider_key, reuse_policy, <<>>, 1, 40)

C12_Slug(provider_key) ==
  IF provider_key \in {"mock", "meshy", "kaedim", "tripoSR"}
  THEN provider_key ELSE "meshy"

C12_ProviderResolution ==
  [][\A provider_key \in ProviderKeys :
       (GenerateWith(provider_key) /\ NewGen.cache_hit = 0)
         => /\ response'.status = 302
            /\ n_provider_calls' = n_provider_calls + 1
            /\ NewGen.provider = C12_Slug(provider_key)
            /\ HasEntry(prompt_cache', GenFingerprint(NewGen))
            /\ EntryOf(prompt_cache', GenFingerprint(NewGen)).provider
                 = C12_Slug(provider_key)]_vars

\* Fresh generations by a registered provider and by the default, the
\* latter's slug in the cache row.
C12_Witness ==
  /\ Len(generations) = 2
  /\ generations[1].cache_hit = 0 /\ generations[1].provider = "kaedim"
  /\ generations[2].cache_hit = 0 /\ generations[2].provider = "meshy"
  /\ Len(prompt_cache) = 1
  /\ prompt_cache[1].provider = "meshy"
  /\ n_provider_calls = 2

(***************************************************************************)
(* C13.  Last write wins: requests that run concurrently for one           *)
(* fingerprint may each miss the cache, call a provider and record a       *)
(* cache_hit = 0 row; whatever the interleaving, the cache holds at most   *)
(* one row per fingerprint, and once a request has written the row of a    *)
(* fingerprint, that row has the model path and the provider of the write  *)
(* committed last.                                                         *)
(***************************************************************************)
\* The index in cache_writes of the last write for hash h (0: none).
LastWrite(h) ==
  LET ks == {k \in 1..Len(cache_writes) : cache_writes[k].hash = h}
  IN  IF ks = {} THEN 0 ELSE CHOOSE k \in ks : \A j \in ks : j <= k

C13_LastWriteWins ==
  /\ \A i, j \in 1..Len(prompt_cache) :
       prompt_cache[i].hash = prompt_cache[j].hash => i = j
  /\ \A k \in 1..Len(cache_writes) :
       LET h == cache_writes[k].hash
           e == EntryOf(prompt_cache, h)
           l == cache_writes[LastWrite(h)]
       IN  /\ HasEntry(prompt_cache, h)
           /\ e.model_path = l.model_path
           /\ e.provider = l.provider

\* Both requests missed the cache, called a provider and recorded
\* cache_hit = 0 for one fingerprint; both have finished; the request that
\* recorded first wrote the cache last; its model file and provider are in
\* the one cache row, and differ from the other's.
C13_Witness ==
  /\ \A w \in Workers : inflight[w].pc = "idle"
  /\ Len(generations) = 2
  /\ n_provider_calls = 2
  /\ generations[1].cache_hit = 0 /\ generations[2].cache_hit = 0
  /\ GenFingerprint(generations[1]) = GenFingerprint(generations[2])
  /\ generations[1].model_path # generations[2].model_path
  /\ generations[1].provider # generations[2].provider
  /\ Len(cache_writes) = 2
  /\ cache_writes[1].gen_id = 2 /\ cache_writes[2].gen_id = 1
  /\ Len(prompt_cache) = 1
  /\ prompt_cache[1].model_path = generations[1].model_path
  /\ prompt_cache[1].provider = generations[1].provider

(***************************************************************************)
(* C14.  Reuse does not write the cache: a /generate request that ends in  *)
(* exact reuse (cache_hit = 1) or similar reuse (cache_hit = 2) leaves     *)
(* every cache row as it was, none added, replaced or removed; a request   *)
(* that ends in a fresh generation changes the row of its own fingerprint  *)
(* and no other.                                                           *)
(***************************************************************************)
Hashes(cache) == {cache[i].hash : i \in 1..Len(cache)}

C14_ReuseLeavesCache ==
  [][GenerateStep =>
       IF NewGen.cache_hit \in {1, 2}
       THEN prompt_cache' = prompt_cache
       ELSE /\ Hashes(prompt_cache')
                 = Hashes(prompt_cache) \cup {GenFingerprint(NewGen)}
            /\ \A h \in Hashes(prompt_cache) \ {GenFingerprint(NewGen)} :
                 EntryOf(prompt_cache', h) = EntryOf(prompt_cache, h)]_vars

\* A reuse has been served from a cache of two rows, one of them rated; the
\* rows are as the fresh generations left them.
C14_Witness ==
  /\ Len(generations) = 3
  /\ request.op = "generate"
  /\ generations[1].cache_hit = 0
  /\ generations[2].cache_hit = 0
  /\ generations[3].cache_hit \in {1, 2}
  /\ Len(prompt_cache) = 2
  /\ prompt_cache[1].quality_score # NULL
  /\ prompt_cache[1].model_path = generations[1].model_path
  /\ prompt_cache[2].model_path = generations[2].model_path

(***************************************************************************)
(* C15.  A fresh generation (cache_hit = 0, under any policy) for          *)
(* fingerprint h leaves a cache row for h with the new generation's model  *)
(* path and provider, the request's prompt, and the quality_score the row  *)
(* for h had before the request (NULL when there was none); the rows of    *)
(* other fingerprints are as before.                                       *)
(***************************************************************************)
C15_UpsertKeepsQuality ==
  [][(GenerateStep /\ NewGen.cache_hit = 0) =>
       LET h == GenFingerprint(NewGen)
           e == EntryOf(prompt_cache', h)
       IN  /\ HasEntry(prompt_cache', h)
           /\ e.model_path = NewGen.model_path
           /\ e.provider = NewGen.provider
           /\ e.prompt = NewGen.prompt
           /\ e.quality_score = IF HasEntry(prompt_cache, h)
                                THEN EntryOf(prompt_cache, h).quality_score
                                ELSE NULL
           /\ \A i \in 1..Len(prompt_cache) :
                prompt_cache[i].hash # h
                  => /\ HasEntry(prompt_cache', prompt_cache[i].hash)
                     /\ EntryOf(prompt_cache', prompt_cache[i].hash)
                          = prompt_cache[i]]_vars

\* A rated row was overwritten by a fresh generation under "never", by another
\* provider, and kept its score; a row of another fingerprint is present.
C15_Witness ==
  /\ Len(generations) = 3
  /\ request.op = "generate" /\ request.reuse_policy = "never"
  /\ generations[1].cache_hit = 0
  /\ LastGen.cache_hit = 0
  /\ GenFingerprint(LastGen) = GenFingerprint(generations[1])
  /\ LastGen.provider # generations[1].provider
  /\ Len(prompt_cache) = 2
  /\ EntryOf(prompt_cache, GenFingerprint(LastGen)).quality_score # NULL
  /\ EntryOf(prompt_cache, GenFingerprint(LastGen)).provider = LastGen.provider

(***************************************************************************)
(* C16.  A cache row's quality_score is NULL if and only if no feedback    *)
(* has been recorded for any generation whose prompt text equals the       *)
(* row's prompt, whatever that generation's mode, image and cache_hit.     *)
(***************************************************************************)
HasFeedbackFor(prompt) ==
  \E k \in 1..Len(feedback_table) :
    /\ feedback_table[k].generation_id \in 1..Len(generations)
    /\ generations[feedback_table[k].generation_id].prompt = prompt

C16_QualityNullIffUnrated ==
  \A i \in 1..Len(prompt_cache) :
    (prompt_cache[i].quality_score = NULL)
      <=> ~HasFeedbackFor(prompt_cache[i].prompt)

(***************************************************************************)
(* C17.  Feedback closes the loop for similar reuse: when the last         *)
(* generation was a similar reuse (cache_hit = 2) of a cache row, the only *)
(* feedback recorded is feedback for that generation, with a mean below    *)
(* 3.5, and the same prompt is submitted again under "smart", the request  *)
(* is not served that row's model by similar reuse again.                  *)
(***************************************************************************)
C17_RatedLow ==
  /\ generations # <<>>
  /\ LastGen.cache_hit = 2
  /\ feedback_table # <<>>
  /\ \A k \in 1..Len(feedback_table) :
       feedback_table[k].generation_id = LastGen.id
  /\ 2 * sum_ratings(feedback_table) < 7 * Len(feedback_table)

C17_FeedbackClosesLoop ==
  [][( /\ C17_RatedLow
       /\ GenerateStep
       /\ request'.reuse_policy = "smart"
       /\ SameRequest(NewGen, LastGen) )
     => ~(NewGen.cache_hit = 2 /\ NewGen.model_path = LastGen.model_path)]_vars

(***************************************************************************)
(* C18.  Every generation row is consistently classified: cache_hit is 0,  *)
(* 1 or 2; a reuse (1 or 2) has duration 0 and no provider was called for  *)
(* it; cache_hit is 2 exactly when the provider label is "cache-similar";  *)
(* a fresh generation (0) carries the slug of a registered provider; and   *)
(* reuse_of is never set.                                                  *)
(***************************************************************************)
C18_Classified(g) ==
  /\ g.cache_hit \in {0, 1, 2}
  /\ g.cache_hit \in {1, 2} => g.duration_ms = 0
  /\ g.cache_hit = 2 <=> g.provider = "cache-similar"
  /\ g.cache_hit = 0 => g.provider \in {"mock", "meshy", "kaedim", "tripoSR"}
  /\ g.reuse_of = NULL

C18_ConsistentClassification ==
  /\ \A i \in 1..Len(generations) : C18_Classified(generations[i])
  /\ n_provider_calls
       = Cardinality({i \in 1..Len(generations) : generations[i].cache_hit = 0})

\* Rows of the three kinds, the exact reuse being one of a row written by the
\* default provider.
C18_Witness ==
  /\ Len(generations) = 4
  /\ \E i, j, k \in 1..4 :
       /\ generations[i].cache_hit = 0 /\ generations[i].provider = "meshy"
       /\ generations[j].cache_hit = 1 /\ generations[j].provider = "meshy"
       /\ generations[k].cache_hit = 2
  /\ n_provider_calls = 2

(***************************************************************************)
(* C19.  Lineage: in every state, with requests and feedback interleaved,  *)
(* every reuse row (cache_hit 1 or 2) has the model path of a fresh        *)
(* generation (cache_hit 0) with a smaller id, and every cache row has the *)
(* model path of a fresh generation: no reuse returns a model that no      *)
(* provider call produced.                                                 *)
(***************************************************************************)
C19_Lineage ==
  /\ \A i \in 1..Len(generations) :
       generations[i].cache_hit \in {1, 2}
         => \E j \in 1..(i - 1) :
              /\ generations[j].cache_hit = 0
              /\ generations[j].id < generations[i].id
              /\ generations[j].model_path = generations[i].model_path
  /\ \A e \in 1..Len(prompt_cache) :
       \E j \in 1..Len(generations) :
         /\ generations[j].cache_hit = 0
         /\ generations[j].model_path = prompt_cache[e].model_path

\* A similar reuse was recorded last although the row it reuses had been
\* rated 3 by then: the feedback came between the request's scan and its
\* INSERT.
C19_Witness ==
  /\ Len(generations) = 2
  /\ request.op = "generate" /\ response.gen_id = 2
  /\ generations[1].cache_hit = 0
  /\ generations[2].cache_hit = 2
  /\ Len(feedback_table) = 1
  /\ feedback_table[1].generation_id = 1
  /\ Len(prompt_cache) = 1
  /\ prompt_cache[1].quality_score = <<3, 1>>
  /\ prompt_cache[1].model_path = generations[2].model_path

(***************************************************************************)
(* C20.  Similar reuse respects the request's identity: a "smart" request  *)
(* in image mode that is answered by similar reuse (cache_hit = 2) is      *)
(* given a model that was generated for its own mode and image reference,  *)
(* never one generated for a text request or for another image.            *)
(***************************************************************************)
C20_SimilarReuseRespectsIdentity ==
  [][( /\ GenerateStep
       /\ request'.reuse_policy = "smart"
       /\ NewGen.mode = "image"
       /\ NewGen.cache_hit = 2 )
     => \A j \in 1..Len(generations) :
          ( /\ generations[j].cache_hit = 0
            /\ generations[j].model_path = NewGen.model_path )
          => /\ generations[j].mode = NewGen.mode
             /\ generations[j].image_path = NewGen.image_path]_vars

====
